---- MODULE Spec2Model ----
(***************************************************************************)
(* Model of the outbound-request governor of zero-mapper:                  *)
(* SafeRequestManager (src/utils/safe-request.ts), its per-domain p-limit  *)
(* gates, the lastRequestTime watermark, the retry loop of request() and   *)
(* the pure helpers shouldRetry / getRetryDelay / calculateBackoffDelay,    *)
(* and of the population script (scripts/populate-mappings.ts): its batch  *)
(* loop, processAnime tasks, the mapping collection and the SIGINT handler.*)
(* Time is Date.now() in milliseconds.                                     *)
(***************************************************************************)
EXTENDS Integers, Sequences, FiniteSets, TLC

VARIABLES
  now,              \* Date.now()
  solo,             \* scenario: TRUE = one caller whose attempts may fail without limit
  rateLimitConfig,  \* this.rateLimitConfig : domain -> RateLimiterConfig
  lastRequestTime,  \* this.lastRequestTime : domain -> ms (partial map)
  activeCount,      \* p-limit: running functions per limiter
  queue,            \* p-limit: pending functions per limiter (FIFO)
  pc,               \* position of each request() call
  url,              \* config.url of each call
  retryCount,       \* let retryCount of each call
  wakeAt,           \* due time of the setTimeout a call sleeps on
  outcome,          \* outcome of the latest attempt of each call
  settled,          \* value the promise of each call settled with
  attempts,         \* number of axios() calls issued by each call
  failTime,         \* time the latest failed attempt was caught
  failures,         \* failed attempts injected so far (counted when ~solo)
  lastDispatch,     \* per domain: issue time of the latest axios() call
  SKIP_EXISTING,    \* CONFIG.SKIP_EXISTING of the population script
  db,               \* the AnimeMapping collection: anilistId -> document (partial map)
  conn,             \* mongoose.connection: "open", "closing" or "closed"
  mainPc,           \* position of main() of the population script
  i,                \* loop variable of the batch loop of main()
  batch,            \* ids.slice(i, i + CONCURRENCY) of the running iteration
  task,             \* position of processAnime(id), per id
  lookups,          \* per id: what each of the five provider lookups came to
  processed,        \* let processed
  failed,           \* let failed
  sigint,           \* position of the SIGINT handler
  args,             \* arguments of a call of one helper of the manager on its own
  ret               \* what that call returned

managerVars == <<now, solo, rateLimitConfig, lastRequestTime, activeCount, queue, pc,
                 url, retryCount, wakeAt, outcome, settled, attempts, failTime,
                 failures, lastDispatch>>

scriptVars == <<SKIP_EXISTING, db, conn, mainPc, i, batch, task, lookups, processed,
                failed, sigint>>

helperVars == <<args, ret>>

vars == <<managerVars, scriptVars, helperVars>>

----------------------------------------------------------------------------
(* Bounds of the model *)

NumReqs == 3          \* concurrent request() calls
MaxFailures == 1      \* failed attempts injected while several callers run
MaxRetriesBound == 2  \* maxRetries of the extra configured policy ranges over 0..this
MaxRetryArg == 3      \* retryCount and maxRetries passed to shouldRetry range over 0..this
JitterSteps == 2      \* Math.random() takes the values j / JitterSteps
TickStep == 50        \* ms the clock advances by while nothing is due
MaxTicks == 1         \* free clock advances after StartTime
StartTime == 1000     \* Date.now() when the manager is constructed
NumIds == 5           \* AniList IDs the population script is given
CONCURRENCY == 3      \* CONFIG.CONCURRENCY of the population script

(* Program constants *)

minRequestInterval == 100
FallbackMaxRetries == 3
FallbackBaseDelay == 1000
FallbackMaxDelay == 30000
FallbackConcurrency == 2
FallbackTimeout == 10000

Reqs == 1..NumReqs

----------------------------------------------------------------------------
(* Policies *)

\* a || b on numbers: 0 (and undefined, modelled as 0) is falsy
OrElse(a, b) == IF a = 0 THEN b ELSE a

Policy(mr, base, maxd, to, conc) ==
  [maxRetries |-> mr, baseDelay |-> base, maxDelay |-> maxd, timeout |-> to,
   concurrency |-> conc]

\* the five configureRateLimit calls of the constructor
ConstructorConfig ==
  [d \in {"graphql.anilist.co", "api.myanimelist.net", "api.themoviedb.org",
          "localhost", "default"} |->
     CASE d = "graphql.anilist.co"  -> Policy(5, 1000, 30000, 10000, 2)
       [] d = "api.myanimelist.net" -> Policy(5, 1000, 30000, 10000, 1)
       [] d = "api.themoviedb.org"  -> Policy(5, 500, 15000, 10000, 3)
       [] d = "localhost"           -> Policy(3, 500, 10000, 5000, 5)
       [] d = "default"             -> Policy(3, 1000, 20000, 10000, 2)]

\* policies a further configureRateLimit call may register
CustomPolicies ==
  {Policy(mr, 1000, 3000, 5000, 1) : mr \in 0..MaxRetriesBound}

CustomDomain == "custom.example"

\* configureRateLimit(domain, config): rateLimitConfig.set
configureRateLimit(cfg, domain, config) ==
  [d \in DOMAIN cfg \cup {domain} |-> IF d = domain THEN config ELSE cfg[d]]

----------------------------------------------------------------------------
(* URLs and policy resolution *)

Url(v, s, h, p, path) ==
  [valid |-> v, scheme |-> s, hostname |-> h, port |-> p, path |-> path]

\* URLs requested while several callers run
ConcurrentUrls ==
  { Url(TRUE, "https", "graphql.anilist.co", 0, "/"),
    Url(TRUE, "https", "api.myanimelist.net", 0, "/v2/anime"),
    Url(TRUE, "https", "example.com", 0, "/a"),
    Url(TRUE, "http", "example.org", 8080, "/b") }

\* URLs requested by a single caller
SoloUrls ==
  { Url(TRUE, "https", "example.com", 0, "/a"),
    Url(TRUE, "https", CustomDomain, 0, "/x"),
    Url(TRUE, "http", "localhost", 3000, "/api/x"),
    Url(FALSE, "", "", 0, "not a url") }

Urls == ConcurrentUrls \cup SoloUrls

NoUrl == Url(FALSE, "", "", 0, "")

\* faulty variant: the host (hostname:port) is used, which matches no
\* configured domain when the URL carries a port
getDomain_WithPort(u) == IF u.valid /\ u.port = 0 THEN u.hostname ELSE "default"

\* getDomain: new URL(url).hostname, 'default' when the URL does not parse
getDomain(u) == IF u.valid THEN u.hostname ELSE "default"

\* getConfig: rateLimitConfig.get(domain) || rateLimitConfig.get('default')
getConfig(domain) ==
  IF domain \in DOMAIN rateLimitConfig THEN rateLimitConfig[domain]
  ELSE rateLimitConfig["default"]

\* getLimiter: limiters.get(domain) || limiters.get('default'); a limiter is
\* identified by the key it was registered under
getLimiter(domain) ==
  IF domain \in DOMAIN rateLimitConfig THEN domain ELSE "default"

\* pLimit(config.concurrency || 2)
LimiterConcurrency(l) == OrElse(rateLimitConfig[l].concurrency, FallbackConcurrency)

Domains == {getDomain(u) : u \in Urls}

\* getStats(): one entry per limiter, keyed by the domain it was configured for
getStats ==
  [domain \in DOMAIN rateLimitConfig |->
     [activeCount |-> activeCount[domain],
      pendingCount |-> Len(queue[domain]),
      config |-> rateLimitConfig[domain]]]

----------------------------------------------------------------------------
(* Outcomes of an HTTP attempt *)

\* a header value is a sequence of characters; <<>> is an absent (undefined) header
NoHeader == <<>>

\* what axios delivers: a 2xx response, or an error with an optional response
\* (status, retry-after header) and an error code
Outcome(resp, st, code, ra) ==
  [response |-> resp, status |-> st, code |-> code, retryAfter |-> ra]

Ok == Outcome(TRUE, 200, "", NoHeader)

NoOutcome == Outcome(FALSE, 0, "none", NoHeader)

Errs ==
  { Outcome(FALSE, 0, "ECONNRESET", NoHeader),
    Outcome(FALSE, 0, "ECONNABORTED", NoHeader),
    Outcome(TRUE, 429, "ERR_BAD_REQUEST", NoHeader),
    Outcome(TRUE, 429, "ERR_BAD_REQUEST", <<"0">>),
    Outcome(TRUE, 429, "ERR_BAD_REQUEST", <<"2">>),
    Outcome(TRUE, 429, "ERR_BAD_REQUEST", <<"4", "0">>),
    Outcome(TRUE, 503, "ERR_BAD_RESPONSE", <<"W", "e", "d", ",", " ", "2", "1">>),
    Outcome(TRUE, 400, "ERR_BAD_REQUEST", NoHeader),
    Outcome(TRUE, 404, "ETIMEDOUT", NoHeader),
    Outcome(TRUE, 500, "ERR_BAD_RESPONSE", NoHeader),
    Outcome(TRUE, 304, "ERR_BAD_REQUEST", NoHeader) }

\* errors injected while several callers run: a connection failure and a 400
ConcurrentErrs ==
  { Outcome(FALSE, 0, "ECONNRESET", NoHeader),
    Outcome(TRUE, 400, "ERR_BAD_REQUEST", NoHeader) }

----------------------------------------------------------------------------
(* Pure helpers of SafeRequestManager *)

Min(a, b) == IF a <= b THEN a ELSE b

RECURSIVE Pow2(_)
Pow2(k) == IF k = 0 THEN 1 ELSE 2 * Pow2(k - 1)

Digits == <<"0", "1", "2", "3", "4", "5", "6", "7", "8", "9">>

IsDigit(c) == \E n \in 1..Len(Digits) : Digits[n] = c

DigitVal(c) == (CHOOSE n \in 1..Len(Digits) : Digits[n] = c) - 1

\* a parsed number: NaN, or an integer value
NaN == [nan |-> TRUE, val |-> 0]

Num(n) == [nan |-> FALSE, val |-> n]

isNaN(x) == x.nan

\* parseInt on an unsigned header value: the value of the leading run of decimal
\* digits, NaN when the string does not start with a digit
RECURSIVE ParseDigits(_, _)
ParseDigits(s, acc) ==
  IF s = <<>> \/ ~IsDigit(Head(s)) THEN acc
  ELSE ParseDigits(Tail(s), 10 * acc + DigitVal(Head(s)))

parseInt(s) == IF s = <<>> \/ ~IsDigit(Head(s)) THEN NaN ELSE Num(ParseDigits(s, 0))

\* parseInt(retryAfter) * 1000
TimesThousand(x) == IF isNaN(x) THEN NaN ELSE Num(x.val * 1000)

\* Math.random() * baseDelay * 0.5 for Math.random() = j / JitterSteps
Jitter(j, baseDelay) == (j * baseDelay) \div (2 * JitterSteps)

RandomDraws == 0..(JitterSteps - 1)

\* faulty variant: the exponent uses the incremented retry count
calculateBackoffDelay_PostIncrement(rc, baseDelay, maxDelay, j) ==
  Min(baseDelay * Pow2(rc + 1) + Jitter(j, baseDelay), maxDelay)

calculateBackoffDelay(rc, baseDelay, maxDelay, j) ==
  LET exponentialDelay == baseDelay * Pow2(rc)
      jitter == Jitter(j, baseDelay)
  IN  Min(exponentialDelay + jitter, maxDelay)

\* faulty variant: every status >= 400 counts as a server error
shouldRetry_RetryClientErrors(error, rc, maxRetries) ==
  IF rc >= maxRetries THEN FALSE
  ELSE IF ~error.response THEN TRUE
  ELSE IF error.status \in {429, 503, 502, 504} THEN TRUE
  ELSE IF error.code \in {"ECONNABORTED", "ETIMEDOUT"} THEN TRUE
  ELSE error.status >= 400

\* faulty variant: the last permitted retry is not made
shouldRetry_OffByOne(error, rc, maxRetries) ==
  IF rc + 1 >= maxRetries THEN FALSE
  ELSE IF ~error.response THEN TRUE
  ELSE IF error.status \in {429, 503, 502, 504} THEN TRUE
  ELSE IF error.code \in {"ECONNABORTED", "ETIMEDOUT"} THEN TRUE
  ELSE IF error.status >= 400 /\ error.status < 500 THEN FALSE
  ELSE error.status >= 500

\* faulty variant: the client-error row is consulted before the timeout row
shouldRetry_ClientErrorFirst(error, rc, maxRetries) ==
  IF rc >= maxRetries THEN FALSE
  ELSE IF ~error.response THEN TRUE
  ELSE IF error.status \in {429, 503, 502, 504} THEN TRUE
  ELSE IF error.status >= 400 /\ error.status < 500 THEN FALSE
  ELSE IF error.code \in {"ECONNABORTED", "ETIMEDOUT"} THEN TRUE
  ELSE IF error.status >= 500 THEN TRUE
  ELSE FALSE

shouldRetry(error, rc, maxRetries) ==
  IF rc >= maxRetries THEN FALSE
  ELSE IF ~error.response THEN TRUE
  ELSE IF error.status \in {429, 503, 502, 504} THEN TRUE
  ELSE IF error.code \in {"ECONNABORTED", "ETIMEDOUT"} THEN TRUE
  ELSE IF error.status >= 400 /\ error.status < 500 THEN FALSE
  ELSE IF error.status >= 500 THEN TRUE
  ELSE FALSE

\* faulty variant: the retry-after value is taken as milliseconds
getRetryDelay_Seconds(error, rc, config, j) ==
  LET retryAfter == IF error.response THEN error.retryAfter ELSE NoHeader
      retryAfterMs == parseInt(retryAfter)
  IN  IF retryAfter # NoHeader /\ ~isNaN(retryAfterMs) /\ retryAfterMs.val > 0
      THEN Min(retryAfterMs.val, OrElse(config.maxDelay, FallbackMaxDelay))
      ELSE calculateBackoffDelay(rc, OrElse(config.baseDelay, FallbackBaseDelay),
                                 OrElse(config.maxDelay, FallbackMaxDelay), j)

\* faulty variant: the retry-after value is not clamped to maxDelay
getRetryDelay_NoClamp(error, rc, config, j) ==
  LET retryAfter == IF error.response THEN error.retryAfter ELSE NoHeader
      retryAfterMs == TimesThousand(parseInt(retryAfter))
  IN  IF retryAfter # NoHeader /\ ~isNaN(retryAfterMs) /\ retryAfterMs.val > 0
      THEN retryAfterMs.val
      ELSE calculateBackoffDelay(rc, OrElse(config.baseDelay, FallbackBaseDelay),
                                 OrElse(config.maxDelay, FallbackMaxDelay), j)

getRetryDelay(error, rc, config, j) ==
  LET retryAfter == IF error.response THEN error.retryAfter ELSE NoHeader
      retryAfterMs == TimesThousand(parseInt(retryAfter))
      backoff == calculateBackoffDelay(rc, OrElse(config.baseDelay, FallbackBaseDelay),
                                       OrElse(config.maxDelay, FallbackMaxDelay), j)
  IN  IF retryAfter # NoHeader /\ ~isNaN(retryAfterMs) /\ retryAfterMs.val > 0
      THEN Min(retryAfterMs.val, OrElse(config.maxDelay, FallbackMaxDelay))
      ELSE backoff

\* a timeout option: undefined, or a number of milliseconds
Undefined == [undefined |-> TRUE, val |-> 0]

Defined(n) == [undefined |-> FALSE, val |-> n]

\* const requestConfig = { ...config, timeout: config.timeout ||
\* rateLimitConfig.timeout || 10000 }: the caller's object as it is left, and
\* the copy given to axios
requestConfig(config, policy) ==
  LET timeout == IF ~config.timeout.undefined /\ config.timeout.val # 0
                 THEN config.timeout.val
                 ELSE OrElse(policy.timeout, FallbackTimeout)
  IN  [config |-> config,
       requestConfig |-> [config EXCEPT !.timeout = Defined(timeout)]]

\* const maxRetries = rateLimitConfig.maxRetries || 3
MaxRetriesOf(config) == OrElse(config.maxRetries, FallbackMaxRetries)

----------------------------------------------------------------------------
(* State machine *)

EmptyMap == [d \in {} |-> 0]

MapSet(m, k, v) == [d \in DOMAIN m \cup {k} |-> IF d = k THEN v ELSE m[d]]

\* the AniList IDs returned by fetchAnilistIds: unique and sorted
Ids == 1..NumIds

ids == [k \in 1..NumIds |-> k]

\* the five providers looked up by processAnime
Providers == {"hianime", "animesama", "animekai", "animepahe", "anicrush"}

Null == "null"

\* what a provider lookup comes to: a result carrying the id, a result without
\* it (or an empty result list), or an exception
LookupResults == {"found", "nothing", "throws"}

\* no lookup has been made
NoLookups == [p \in Providers |-> "pending"]

AllFound == [p \in Providers |-> "found"]

\* faulty variant: a result without the id is passed on as it is
mapProvider_NoDefault(provider, looked) ==
  IF looked = "found" THEN "id" ELSE IF looked = "throws" THEN Null ELSE "undefined"

\* mapHiAnime, mapAnimeSama, mapAnimeKai, mapAnimePahe, mapAnicrush: the id
\* of the result or null, and null when the lookup throws
mapProvider(provider, looked) == IF looked = "found" THEN "id" ELSE Null

\* a mapping document (format, year, mal, tmdb and flixhq are left out)
Doc(anilistId, title, found) ==
  [anilistId |-> anilistId, title |-> title,
   hianime |-> found["hianime"], animesama |-> found["animesama"],
   animekai |-> found["animekai"], animepahe |-> found["animepahe"],
   anicrush |-> found["anicrush"]]

\* the document an earlier run stored for an id
StoredDoc(anilistId) == Doc(anilistId, "stored", [p \in Providers |-> "id"])

\* what getAnilistInfo returns for an id AniList knows
Info == [title |-> "fetched"]

\* the population script is not run
ScriptNotRun ==
  /\ SKIP_EXISTING = FALSE
  /\ db = EmptyMap
  /\ conn = "closed"
  /\ mainPc = "idle"
  /\ i = 0
  /\ batch = <<>>
  /\ task = [id \in Ids |-> "none"]
  /\ lookups = [id \in Ids |-> NoLookups]
  /\ processed = 0
  /\ failed = 0
  /\ sigint = "none"

\* the manager as constructed, several callers
InitConcurrent ==
  /\ solo = FALSE
  /\ rateLimitConfig = ConstructorConfig

\* the manager with one more configured policy, a single caller
InitSolo ==
  /\ solo = TRUE
  /\ rateLimitConfig \in
       {configureRateLimit(ConstructorConfig, CustomDomain, p) : p \in CustomPolicies}

ManagerInit ==
  /\ InitConcurrent \/ InitSolo
  /\ now = StartTime
  /\ lastRequestTime = EmptyMap
  /\ activeCount = [l \in DOMAIN rateLimitConfig |-> 0]
  /\ queue = [l \in DOMAIN rateLimitConfig |-> <<>>]
  /\ pc = [r \in Reqs |-> "idle"]
  /\ url = [r \in Reqs |-> NoUrl]
  /\ retryCount = [r \in Reqs |-> 0]
  /\ wakeAt = [r \in Reqs |-> 0]
  /\ outcome = [r \in Reqs |-> NoOutcome]
  /\ settled = [r \in Reqs |-> NoOutcome]
  /\ attempts = [r \in Reqs |-> 0]
  /\ failTime = [r \in Reqs |-> 0]
  /\ failures = 0
  /\ lastDispatch = EmptyMap

\* no helper is called on its own
NoArgs == [fn |-> "none"]

NoRet == [fn |-> "none"]

HelperNotCalled == args = NoArgs /\ ret = NoRet

Init == ManagerInit /\ ScriptNotRun /\ HelperNotCalled

\* const domain = this.getDomain(url), of a call already made
DomainOf(r) == getDomain(url[r])

\* faulty variant: one function too many is started
SlotFree_OffByOne(l) == activeCount[l] <= LimiterConcurrency(l)

\* p-limit: a queued function may start while activeCount < concurrency
SlotFree(l) == activeCount[l] < LimiterConcurrency(l)

\* faulty variant: the watermark is not consulted
WaitTime_NoWait(domain) == 0

\* enforceRateLimit, up to its await: the time still to wait before the next
\* request to the domain, 0 when minRequestInterval has elapsed
WaitTime(domain) ==
  LET lastRequest == IF domain \in DOMAIN lastRequestTime
                     THEN lastRequestTime[domain] ELSE 0
      timeSinceLastRequest == now - lastRequest
  IN  IF timeSinceLastRequest < minRequestInterval
      THEN minRequestInterval - timeSinceLastRequest
      ELSE 0

\* position of a call that enters the try block now
BeginPc(domain) == IF WaitTime(domain) = 0 THEN "inflight" ELSE "rateWait"

\* axios(requestConfig) is issued now by the calls of G (at most one call)
Dispatched(G) ==
  /\ attempts' = [r \in Reqs |-> IF r \in G THEN attempts[r] + 1 ELSE attempts[r]]
  /\ lastDispatch' =
       IF G = {} THEN lastDispatch
       ELSE MapSet(lastDispatch, getDomain(url'[CHOOSE r \in G : TRUE]), now)

\* the calls of E (at most one) enter the try block of the retry loop now:
\* enforceRateLimit either sleeps, or sets the watermark and axios is called
Begin(E) ==
  LET go == {r \in E : WaitTime(getDomain(url'[r])) = 0}
  IN  /\ lastRequestTime' =
           IF go = {} THEN lastRequestTime
           ELSE MapSet(lastRequestTime, getDomain(url'[CHOOSE r \in go : TRUE]), now)
      /\ wakeAt' = [r \in Reqs |->
                      IF r \in E \ go THEN now + WaitTime(getDomain(url'[r]))
                      ELSE IF r \in go THEN 0
                      ELSE wakeAt[r]]
      /\ Dispatched(go)

\* request(config): resolve domain, policy and limiter, hand the retry loop to
\* the limiter; p-limit starts it at once when a slot is free, else queues it
Request(r, u) ==
  LET domain == getDomain(u)
      limiter == getLimiter(domain)
  IN  /\ pc[r] = "idle"
      /\ solo => r = 1
      /\ u \in IF solo THEN SoloUrls ELSE ConcurrentUrls
      /\ \A q \in Reqs : q < r => pc[q] # "idle"
      /\ url' = [url EXCEPT ![r] = u]
      /\ retryCount' = [retryCount EXCEPT ![r] = 0]
      /\ IF SlotFree(limiter)
         THEN /\ activeCount' = [activeCount EXCEPT ![limiter] = @ + 1]
              /\ UNCHANGED queue
              /\ pc' = [pc EXCEPT ![r] = BeginPc(domain)]
              /\ Begin({r})
         ELSE /\ queue' = [queue EXCEPT ![limiter] = Append(@, r)]
              /\ UNCHANGED activeCount
              /\ pc' = [pc EXCEPT ![r] = "pending"]
              /\ Begin({})
      /\ UNCHANGED <<now, solo, rateLimitConfig, outcome, settled, failTime, failures>>
      /\ UNCHANGED <<scriptVars, helperVars>>

\* enforceRateLimit after its delay(waitTime): set the watermark; axios is called
RateLimitWake(r) ==
  /\ pc[r] = "rateWait"
  /\ now >= wakeAt[r]
  /\ lastRequestTime' = MapSet(lastRequestTime, DomainOf(r), now)
  /\ pc' = [pc EXCEPT ![r] = "inflight"]
  /\ UNCHANGED url
  /\ wakeAt' = [wakeAt EXCEPT ![r] = 0]
  /\ Dispatched({r})
  /\ UNCHANGED <<now, solo, rateLimitConfig, activeCount, queue, retryCount, outcome,
                 settled, failTime, failures>>
  /\ UNCHANGED <<scriptVars, helperVars>>

\* faulty variant: a freed slot is not handed to the queue
NextQueued_Dropped(limiter) == {}

\* p-limit: the queued function that takes over a freed slot
NextQueued(limiter) == IF queue[limiter] = <<>> THEN {} ELSE {Head(queue[limiter])}

\* faulty variant: a call that throws keeps its slot
Settle_LeakOnThrow(r, how, value) ==
  LET limiter == getLimiter(DomainOf(r))
      next == IF how = "rejected" THEN {} ELSE NextQueued(limiter)
  IN  /\ queue' = [queue EXCEPT ![limiter] = IF next = {} THEN @ ELSE Tail(@)]
      /\ activeCount' = [activeCount EXCEPT ![limiter] =
                           IF next = {} /\ how # "rejected" THEN @ - 1 ELSE @]
      /\ pc' = [q \in Reqs |->
                  IF q = r THEN how
                  ELSE IF q \in next THEN BeginPc(DomainOf(q))
                  ELSE pc[q]]
      /\ retryCount' = [q \in Reqs |-> IF q \in next THEN 0 ELSE retryCount[q]]
      /\ settled' = [settled EXCEPT ![r] = value]
      /\ UNCHANGED url
      /\ Begin(next)

\* the function given to the limiter settles (return response / throw error):
\* p-limit frees the slot and starts the head of its queue
Settle(r, how, value) ==
  LET limiter == getLimiter(DomainOf(r))
      next == NextQueued(limiter)
  IN  /\ queue' = [queue EXCEPT ![limiter] = IF @ = <<>> THEN @ ELSE Tail(@)]
      /\ activeCount' = [activeCount EXCEPT ![limiter] = IF next = {} THEN @ - 1 ELSE @]
      /\ pc' = [q \in Reqs |->
                  IF q = r THEN how
                  ELSE IF q \in next THEN BeginPc(DomainOf(q))
                  ELSE pc[q]]
      /\ retryCount' = [q \in Reqs |-> IF q \in next THEN 0 ELSE retryCount[q]]
      /\ settled' = [settled EXCEPT ![r] = value]
      /\ UNCHANGED url
      /\ Begin(next)

\* axios resolves: return response
Respond(r) ==
  /\ pc[r] = "inflight"
  /\ outcome' = [outcome EXCEPT ![r] = Ok]
  /\ failTime' = [failTime EXCEPT ![r] = 0]
  /\ Settle(r, "resolved", Ok)
  /\ UNCHANGED <<now, solo, rateLimitConfig, failures>>
  /\ UNCHANGED <<scriptVars, helperVars>>

\* the environment may let an attempt fail with error e
MayFail(e) == solo \/ (failures < MaxFailures /\ e \in ConcurrentErrs)

\* axios rejects and shouldRetry says no: throw error
FailReject(r, e) ==
  /\ pc[r] = "inflight"
  /\ MayFail(e)
  /\ ~shouldRetry(e, retryCount[r], MaxRetriesOf(getConfig(DomainOf(r))))
  /\ outcome' = [outcome EXCEPT ![r] = e]
  /\ failTime' = [failTime EXCEPT ![r] = now]
  /\ failures' = IF solo THEN failures ELSE failures + 1
  /\ Settle(r, "rejected", e)
  /\ UNCHANGED <<now, solo, rateLimitConfig>>
  /\ UNCHANGED <<scriptVars, helperVars>>

\* axios rejects and shouldRetry says yes: await this.delay(delay)
FailRetry(r, e, j) ==
  /\ pc[r] = "inflight"
  /\ MayFail(e)
  /\ shouldRetry(e, retryCount[r], MaxRetriesOf(getConfig(DomainOf(r))))
  /\ outcome' = [outcome EXCEPT ![r] = e]
  /\ failTime' = [failTime EXCEPT ![r] = now]
  /\ failures' = IF solo THEN failures ELSE failures + 1
  /\ pc' = [pc EXCEPT ![r] = "backoff"]
  /\ wakeAt' = [wakeAt EXCEPT ![r] =
                  now + getRetryDelay(e, retryCount[r], getConfig(DomainOf(r)), j)]
  /\ UNCHANGED <<now, solo, rateLimitConfig, lastRequestTime, activeCount, queue, url,
                 retryCount, settled, attempts, lastDispatch>>
  /\ UNCHANGED <<scriptVars, helperVars>>

\* the backoff timer fires: retryCount++, next iteration of the loop
BackoffWake(r) ==
  /\ pc[r] = "backoff"
  /\ now >= wakeAt[r]
  /\ retryCount' = [retryCount EXCEPT ![r] = @ + 1]
  /\ pc' = [pc EXCEPT ![r] = BeginPc(DomainOf(r))]
  /\ UNCHANGED url
  /\ Begin({r})
  /\ UNCHANGED <<now, solo, rateLimitConfig, activeCount, queue, outcome, settled,
                 failTime, failures>>
  /\ UNCHANGED <<scriptVars, helperVars>>

Sleepers == {r \in Reqs : pc[r] \in {"rateWait", "backoff"} /\ wakeAt[r] > now}

\* time passes while no timer is due
Tick ==
  /\ now + TickStep <= StartTime + MaxTicks * TickStep
  /\ now' = now + TickStep
  /\ UNCHANGED <<solo, rateLimitConfig, lastRequestTime, activeCount, queue, pc, url,
                 retryCount, wakeAt, outcome, settled, attempts, failTime, failures,
                 lastDispatch>>
  /\ UNCHANGED <<scriptVars, helperVars>>

\* time passes up to the earliest pending timer
AdvanceToTimer ==
  /\ Sleepers # {}
  /\ now' = CHOOSE t \in {wakeAt[r] : r \in Sleepers} :
               \A r \in Sleepers : t <= wakeAt[r]
  /\ UNCHANGED <<solo, rateLimitConfig, lastRequestTime, activeCount, queue, pc, url,
                 retryCount, wakeAt, outcome, settled, attempts, failTime, failures,
                 lastDispatch>>
  /\ UNCHANGED <<scriptVars, helperVars>>

Next ==
  \/ \E r \in Reqs, u \in Urls : Request(r, u)
  \/ \E r \in Reqs : RateLimitWake(r)
  \/ \E r \in Reqs : Respond(r)
  \/ \E r \in Reqs, e \in Errs : FailReject(r, e)
  \/ \E r \in Reqs, e \in Errs, j \in RandomDraws : FailRetry(r, e, j)
  \/ \E r \in Reqs : BackoffWake(r)
  \/ Tick
  \/ AdvanceToTimer

Spec == Init /\ [][Next]_vars

\* a single caller; every outcome of the error set may be injected at every attempt.
\* Its retries come at least a backoff delay after its previous dispatch, so it
\* never sleeps in enforceRateLimit and RateLimitWake is never enabled.
SoloInit == Init /\ solo

SoloNext ==
  \/ \E r \in Reqs, u \in Urls : Request(r, u)
  \/ \E r \in Reqs : Respond(r)
  \/ \E r \in Reqs, e \in Errs : FailReject(r, e)
  \/ \E r \in Reqs, e \in Errs, j \in RandomDraws : FailRetry(r, e, j)
  \/ \E r \in Reqs : BackoffWake(r)
  \/ Tick
  \/ AdvanceToTimer

SoloSpec == SoloInit /\ [][SoloNext]_vars

\* a step of the event loop other than a new call: an HTTP attempt terminates,
\* a due timer fires, or the clock reaches the earliest pending timer
Progress ==
  \/ \E r \in Reqs : RateLimitWake(r) \/ Respond(r) \/ BackoffWake(r)
  \/ \E r \in Reqs, e \in Errs : FailReject(r, e)
  \/ \E r \in Reqs, e \in Errs, j \in RandomDraws : FailRetry(r, e, j)
  \/ AdvanceToTimer

\* the event loop does not stop while an attempt or a timer is outstanding
Fairness == WF_vars(Progress)

FairSpec == Spec /\ Fairness

\* the scenario of one gate of concurrency 1: every caller requests the same
\* URL of api.myanimelist.net
CapOneUrl == Url(TRUE, "https", "api.myanimelist.net", 0, "/v2/anime")

CapOneInit == Init /\ ~solo

CapOneNext ==
  \/ \E r \in Reqs : Request(r, CapOneUrl)
  \/ \E r \in Reqs : RateLimitWake(r)
  \/ \E r \in Reqs : Respond(r)
  \/ \E r \in Reqs, e \in Errs : FailReject(r, e)
  \/ \E r \in Reqs, e \in Errs, j \in RandomDraws : FailRetry(r, e, j)
  \/ \E r \in Reqs : BackoffWake(r)
  \/ Tick
  \/ AdvanceToTimer

CapOneSpec == CapOneInit /\ [][CapOneNext]_vars

----------------------------------------------------------------------------
(* The population script *)

\* the script after mongoose.connect and fetchAnilistIds, about to enter the
\* batch loop; the collection holds the documents of earlier runs
ScriptInit ==
  /\ ManagerInit /\ ~solo
  /\ SKIP_EXISTING \in BOOLEAN
  /\ \E stored \in SUBSET Ids : db = [id \in stored |-> StoredDoc(id)]
  /\ conn = "open"
  /\ mainPc = "loop"
  /\ i = 0
  /\ batch = <<>>
  /\ task = [id \in Ids |-> "none"]
  /\ lookups = [id \in Ids |-> NoLookups]
  /\ processed = 0
  /\ failed = 0
  /\ sigint = "none"
  /\ HelperNotCalled

\* the process is alive: process.exit has not been called
Alive == mainPc # "idle" /\ sigint # "exited"

BatchIds == {batch[k] : k \in 1..Len(batch)}

\* positions of a processAnime task whose promise (with its catch) has settled
SettledTasks == {"skipped", "noInfo", "processed", "caught"}

\* processAnime(id) up to its first await: the findOne query when
\* SKIP_EXISTING, else the axios.post of getAnilistInfo
StartPc == IF SKIP_EXISTING THEN "findOne" ELSE "getAnilistInfo"

\* main: the loop condition holds; batch = ids.slice(i, i + CONCURRENCY) and
\* processBatch calls processAnime for every id of the batch
StartBatch ==
  /\ Alive
  /\ mainPc = "loop"
  /\ i < Len(ids)
  /\ batch' = SubSeq(ids, i + 1, Min(i + CONCURRENCY, Len(ids)))
  /\ task' = [id \in Ids |->
                IF \E k \in 1..Len(batch') : batch'[k] = id THEN StartPc ELSE task[id]]
  /\ mainPc' = "awaitBatch"
  /\ UNCHANGED <<lookups, SKIP_EXISTING, db, conn, i, processed, failed, sigint>>
  /\ UNCHANGED <<managerVars, helperVars>>

\* faulty variant: the stored document is not found
Existing_Never(anilistId) == FALSE

\* const existing = await AnimeMapping.findOne({ anilistId })
Existing(anilistId) == anilistId \in DOMAIN db

\* processAnime: findOne resolves; return when the document exists, else
\* getAnilistInfo issues its axios.post to graphql.anilist.co
FindOne(id) ==
  /\ Alive
  /\ task[id] = "findOne"
  /\ task' = [task EXCEPT ![id] = IF Existing(id) THEN "skipped" ELSE "getAnilistInfo"]
  /\ UNCHANGED <<lookups, SKIP_EXISTING, db, conn, mainPc, i, batch, processed, failed, sigint>>
  /\ UNCHANGED <<managerVars, helperVars>>

\* getAnilistInfo resolves with the media info, or with null (no Media, or the
\* axios.post failed): on null failed++ and return, else the five provider
\* mappers are started
GetAnilistInfo(id, info) ==
  /\ Alive
  /\ task[id] = "getAnilistInfo"
  /\ IF info = "null"
     THEN /\ failed' = failed + 1
          /\ task' = [task EXCEPT ![id] = "noInfo"]
     ELSE /\ failed' = failed
          /\ task' = [task EXCEPT ![id] = "mapping"]
  /\ UNCHANGED <<lookups, SKIP_EXISTING, db, conn, mainPc, i, batch, processed, sigint>>
  /\ UNCHANGED <<managerVars, helperVars>>

\* Promise.all of the five mappers resolves (each mapper catches its errors),
\* the lookups having come to `looked`; findOneAndUpdate is issued
Mapped(id, looked) ==
  /\ Alive
  /\ task[id] = "mapping"
  /\ lookups' = [lookups EXCEPT ![id] = looked]
  /\ task' = [task EXCEPT ![id] = "findOneAndUpdate"]
  /\ UNCHANGED <<SKIP_EXISTING, db, conn, mainPc, i, batch, processed, failed, sigint>>
  /\ UNCHANGED <<managerVars, helperVars>>

\* findOneAndUpdate({anilistId}, {$set: ...}, {upsert: true}) resolves; processed++
Updated(id) ==
  /\ Alive
  /\ task[id] = "findOneAndUpdate"
  /\ db' = MapSet(db, id, Doc(id, Info.title,
                                [p \in Providers |-> mapProvider(p, lookups[id][p])]))
  /\ processed' = processed + 1
  /\ task' = [task EXCEPT ![id] = "processed"]
  /\ lookups' = [lookups EXCEPT ![id] = NoLookups]
  /\ UNCHANGED <<SKIP_EXISTING, conn, mainPc, i, batch, failed, sigint>>
  /\ UNCHANGED <<managerVars, helperVars>>

\* a database operation rejects, so processAnime rejects (nothing else in it
\* can throw); the catch of processBatch runs: failed++
Caught(id) ==
  /\ Alive
  /\ task[id] \in {"findOne", "findOneAndUpdate"}
  /\ failed' = failed + 1
  /\ task' = [task EXCEPT ![id] = "caught"]
  /\ lookups' = [lookups EXCEPT ![id] = NoLookups]
  /\ UNCHANGED <<SKIP_EXISTING, db, conn, mainPc, i, batch, processed, sigint>>
  /\ UNCHANGED <<managerVars, helperVars>>

\* faulty variant: the await returns once one promise has settled
BatchSettled_Any == \E id \in BatchIds : task[id] \in SettledTasks

\* await Promise.all(promises): every promise of the batch has settled
BatchSettled == \A id \in BatchIds : task[id] \in SettledTasks

\* main: processBatch returns; i += CONCURRENCY
BatchDone ==
  /\ Alive
  /\ mainPc = "awaitBatch"
  /\ BatchSettled
  /\ i' = i + CONCURRENCY
  /\ mainPc' = "loop"
  /\ UNCHANGED <<lookups, SKIP_EXISTING, db, conn, batch, task, processed, failed, sigint>>
  /\ UNCHANGED <<managerVars, helperVars>>

\* main: the loop ends; await mongoose.connection.close()
Complete ==
  /\ Alive
  /\ mainPc = "loop"
  /\ i >= Len(ids)
  /\ conn' = "closed"
  /\ mainPc' = "done"
  /\ UNCHANGED <<lookups, SKIP_EXISTING, db, i, batch, task, processed, failed, sigint>>
  /\ UNCHANGED <<managerVars, helperVars>>

\* process.on('SIGINT'): the handler logs and calls mongoose.connection.close()
Sigint ==
  /\ Alive
  /\ mainPc \in {"loop", "awaitBatch"}
  /\ sigint = "none"
  /\ sigint' = "closing"
  /\ conn' = "closing"
  /\ UNCHANGED <<lookups, SKIP_EXISTING, db, mainPc, i, batch, task, processed, failed>>
  /\ UNCHANGED <<managerVars, helperVars>>

\* the handler's await returns: process.exit(0)
SigintExit ==
  /\ sigint = "closing"
  /\ sigint' = "exited"
  /\ conn' = "closed"
  /\ UNCHANGED <<lookups, SKIP_EXISTING, db, mainPc, i, batch, task, processed, failed>>
  /\ UNCHANGED <<managerVars, helperVars>>

ScriptNext ==
  \/ StartBatch
  \/ \E id \in Ids : FindOne(id)
  \/ \E id \in Ids, info \in {"null", "info"} : GetAnilistInfo(id, info)
  \/ \E id \in Ids : Mapped(id, AllFound)
  \/ \E id \in Ids : Updated(id)
  \/ \E id \in Ids : Caught(id)
  \/ BatchDone
  \/ Complete
  \/ Sigint
  \/ SigintExit

\* every provider lookup finds its id; lookups that fail are the subject of
\* LookupSpec
ScriptSpec == ScriptInit /\ [][ScriptNext]_vars

\* a fresh run (no stored documents, SKIP_EXISTING off, no SIGINT) in which
\* the provider lookups of the first id may come to anything
LookupInit == ScriptInit /\ ~SKIP_EXISTING /\ db = EmptyMap

LookupFaultIds == {ids[1]}

LookupNext ==
  \/ StartBatch
  \/ \E id \in Ids, info \in {"null", "info"} : GetAnilistInfo(id, info)
  \/ \E id \in Ids, looked \in [Providers -> LookupResults] :
       (id \in LookupFaultIds \/ looked = AllFound) /\ Mapped(id, looked)
  \/ \E id \in Ids : Updated(id)
  \/ \E id \in Ids : Caught(id)
  \/ BatchDone
  \/ Complete

LookupSpec == LookupInit /\ [][LookupNext]_vars

----------------------------------------------------------------------------
(* The helpers of the manager called on their own *)

\* status codes and error codes an error passed to shouldRetry may carry
Statuses == {200, 304, 399, 400, 404, 429, 499, 500, 501, 502, 503, 504, 599}

Codes == {"ERR_BAD_REQUEST", "ECONNABORTED", "ETIMEDOUT", "ECONNRESET"}

\* errors without a response (no status), and errors with a response
ErrorShapes ==
  {Outcome(FALSE, 0, code, NoHeader) : code \in Codes}
    \cup {Outcome(TRUE, st, code, NoHeader) : st \in Statuses, code \in Codes}

ShouldRetryArgs ==
  [fn : {"shouldRetry"}, error : ErrorShapes, retryCount : 0..MaxRetryArg,
   maxRetries : 0..MaxRetryArg]

\* request specs of a caller: without a timeout, and with explicit ones
CallerConfigs ==
  {[url |-> "https://graphql.anilist.co", method |-> "POST", timeout |-> t] :
     t \in {Undefined, Defined(0), Defined(1), Defined(2500), Defined(60000)}}

\* the policies request() may resolve
ResolvedPolicies ==
  {ConstructorConfig[d] : d \in DOMAIN ConstructorConfig} \cup CustomPolicies

RequestConfigArgs ==
  [fn : {"requestConfig"}, config : CallerConfigs, policy : ResolvedPolicies]

HelperInit ==
  /\ ManagerInit /\ ~solo
  /\ ScriptNotRun
  /\ args \in ShouldRetryArgs \cup RequestConfigArgs
  /\ ret = NoRet

\* this.shouldRetry(error, retryCount, maxRetries)
CallShouldRetry ==
  /\ args.fn = "shouldRetry"
  /\ ret = NoRet
  /\ ret' = [fn |-> "shouldRetry",
             retry |-> shouldRetry(args.error, args.retryCount, args.maxRetries)]
  /\ UNCHANGED <<args, managerVars, scriptVars>>

\* one iteration of request() up to axios(requestConfig)
BuildRequestConfig ==
  /\ args.fn = "requestConfig"
  /\ ret = NoRet
  /\ LET built == requestConfig(args.config, args.policy)
     IN  /\ ret' = [fn |-> "requestConfig", requestConfig |-> built.requestConfig]
         /\ args' = [args EXCEPT !.config = built.config]
  /\ UNCHANGED <<managerVars, scriptVars>>

HelperNext ==
  \/ CallShouldRetry
  \/ BuildRequestConfig

HelperSpec == HelperInit /\ [][HelperNext]_vars

----------------------------------------------------------------------------
(* Vocabulary of the properties *)

Called(r) == pc[r] # "idle"

Finished(r) == pc[r] \in {"resolved", "rejected"}

\* calls to a hostname whose HTTP attempt is dispatched and not yet completed
InFlight(h) == {r \in Reqs : pc[r] = "inflight" /\ DomainOf(r) = h}

\* calls to a hostname that hold a slot of their limiter
Holding(h) == {r \in Reqs : pc[r] \in {"rateWait", "inflight", "backoff"} /\ DomainOf(r) = h}

\* concurrency cap of the policy resolved for a hostname
CapOf(h) == OrElse(getConfig(h).concurrency, FallbackConcurrency)

\* the policy resolved for a call
PolicyOf(r) == getConfig(DomainOf(r))

TimeoutCodes == {"ECONNABORTED", "ETIMEDOUT"}

\* a failure the decision table retries while retries remain
RetryableCondition(e) ==
  \/ ~e.response
  \/ e.status \in {429, 502, 503, 504}
  \/ e.code \in TimeoutCodes
  \/ e.status >= 500

\* a client-error status other than 429, not a timeout
ClientError(e) ==
  /\ e.response
  /\ e.status >= 400 /\ e.status <= 499 /\ e.status # 429
  /\ e.code \notin TimeoutCodes

\* the retry-after headers of the error set that are a number of seconds
NumericHeaders == {<<"0">>, <<"2">>, <<"4", "0">>}

SecondsOf(h) == CASE h = <<"0">> -> 0 [] h = <<"2">> -> 2 [] h = <<"4", "0">> -> 40

\* the latest failure of r carries a retry-after directive of a number of seconds
HasDirective(r) == outcome[r].response /\ outcome[r].retryAfter \in NumericHeaders

DirectiveMs(r) == SecondsOf(outcome[r].retryAfter) * 1000

\* delay of the backoff sleep r is in
DelayOf(r) == wakeAt[r] - failTime[r]

Max(a, b) == IF a >= b THEN a ELSE b

----------------------------------------------------------------------------
(* Properties *)

\* C1: for every hostname, the number of HTTP attempts dispatched and not yet
\* completed never exceeds the concurrency cap of the policy resolved for it.
C1_ConcurrencyCap ==
  \A h \in Domains : Cardinality(InFlight(h)) <= CapOf(h)

\* C1 witness: graphql.anilist.co has 2 attempts in flight and a third call queued
C1_Witness ==
  /\ Cardinality(InFlight("graphql.anilist.co")) = 2
  /\ \E r \in Reqs : pc[r] = "pending" /\ DomainOf(r) = "graphql.anilist.co"

\* C2 (as claimed): any two consecutive dispatches to the same hostname are at
\* least minRequestInterval apart in issue time.
C2_MinInterval ==
  [][\A r \in Reqs :
       (attempts'[r] > attempts[r] /\ getDomain(url'[r]) \in DOMAIN lastDispatch)
         => now' - lastDispatch[getDomain(url'[r])] >= minRequestInterval]_vars

C4_ClientErrorImmediate ==
  \A r \in Reqs :
    ClientError(outcome[r])
      => /\ pc[r] = "rejected"
         /\ settled[r] = outcome[r]
         /\ attempts[r] = retryCount[r] + 1

\* C4 witness: a 400 on the second attempt is rejected with retries remaining
C4_Witness ==
  \E r \in Reqs :
    /\ pc[r] = "rejected"
    /\ settled[r].status = 400
    /\ retryCount[r] = 1
    /\ attempts[r] = 2
    /\ PolicyOf(r).maxRetries > 1

\* C5: after a retried failure carrying retry-after R seconds with
\* 0 < R*1000 <= maxDelay, the backoff sleep lasts exactly R*1000 ms and the
\* next attempt is dispatched no earlier than R*1000 ms after the failure.
C5_RetryAfterHonoured ==
  \A r \in Reqs :
    (HasDirective(r) /\ DirectiveMs(r) > 0 /\ DirectiveMs(r) <= PolicyOf(r).maxDelay)
      => /\ pc[r] = "backoff" => DelayOf(r) = DirectiveMs(r)
         /\ pc[r] \in {"rateWait", "inflight"} => now >= failTime[r] + DirectiveMs(r)

\* C5 witness: the attempt after a 429 with retry-after 2 is in flight
C5_Witness ==
  \E r \in Reqs :
    /\ pc[r] = "inflight"
    /\ attempts[r] = 2
    /\ outcome[r].status = 429
    /\ outcome[r].retryAfter = <<"2">>
    /\ now = failTime[r] + 2000

C7_BackoffRange ==
  \A r \in Reqs :
    (pc[r] = "backoff" /\ (~outcome[r].response \/ outcome[r].retryAfter = NoHeader))
      => LET base == PolicyOf(r).baseDelay
             maxd == PolicyOf(r).maxDelay
             k == retryCount[r]
         IN  /\ DelayOf(r) >= Min(base * Pow2(k), maxd)
             /\ 2 * DelayOf(r) <= Min(2 * base * Pow2(k) + base, 2 * maxd)

\* C7 witness: baseDelay 1000, first retry after a 429 without retry-after,
\* scheduled strictly between 1000 and 1500 ms later
C7_Witness ==
  \E r \in Reqs :
    /\ pc[r] = "backoff"
    /\ outcome[r].status = 429
    /\ outcome[r].retryAfter = NoHeader
    /\ retryCount[r] = 0
    /\ PolicyOf(r).baseDelay = 1000
    /\ DelayOf(r) > 1000
    /\ DelayOf(r) < 1500

\* C8 (as claimed): a call is never kept waiting for a slot while the cap of
\* its own hostname is not reached, whatever calls to other hostnames hold.
C8_DomainsIndependent ==
  \A r \in Reqs :
    pc[r] = "pending" => Cardinality(Holding(DomainOf(r))) >= CapOf(DomainOf(r))

\* C9: every call to request() eventually settles (from some point on every
\* call made has settled), and a settled call is either resolved with the
\* response of a successful attempt or rejected with an error.
C9_EventuallySettles ==
  /\ <>[](\A r \in Reqs : Called(r) => Finished(r))
  /\ [](\A r \in Reqs :
          /\ pc[r] = "resolved" => (settled[r] = Ok /\ outcome[r] = Ok)
          /\ pc[r] = "rejected" => settled[r] \in Errs)

\* C9 witness: all calls went to the domain of cap 1 and have settled, the
\* first resolved by its second attempt and the last rejected
C9_Witness ==
  /\ \A r \in Reqs : DomainOf(r) = "api.myanimelist.net" /\ Finished(r)
  /\ pc[1] = "resolved" /\ attempts[1] = 2
  /\ pc[NumReqs] = "resolved"

\* C10: a call is rejected only when the outcome of its latest attempt is not
\* retryable or its retryCount has reached the policy's maxRetries, and the
\* error delivered is the error of the last attempt.
C10_RejectOnlyWhenFinal ==
  \A r \in Reqs :
    pc[r] = "rejected"
      => /\ settled[r] = outcome[r]
         /\ settled[r] \in Errs
         /\ ~RetryableCondition(settled[r]) \/ retryCount[r] >= PolicyOf(r).maxRetries

\* C10 witness: rejected with the error of the third attempt once retries ran out
C10_Witness ==
  \E r \in Reqs :
    /\ pc[r] = "rejected"
    /\ RetryableCondition(settled[r])
    /\ PolicyOf(r).maxRetries = 2
    /\ retryCount[r] = 2
    /\ attempts[r] = 3

\* calls routed to the limiter registered under key l
RoutedTo(l) == {r \in Reqs : Called(r) /\ getLimiter(DomainOf(r)) = l}

\* calls that have acquired a slot of limiter l and have not settled
SlotHolders(l) == {r \in RoutedTo(l) : pc[r] \in {"rateWait", "inflight", "backoff"}}

\* calls waiting for a slot of limiter l
SlotWaiters(l) == {r \in RoutedTo(l) : pc[r] = "pending"}

\* C11: a slot is released exactly once on every exit path: at every instant
\* the active count of a limiter is the number of calls that acquired one of its
\* slots and have not settled (its pending count the number of calls waiting),
\* and once all calls routed to it have settled both counts are 0.
C11_SlotsReleased ==
  \A l \in DOMAIN getStats :
    /\ getStats[l].activeCount = Cardinality(SlotHolders(l))
    /\ getStats[l].pendingCount = Cardinality(SlotWaiters(l))
    /\ (\A r \in RoutedTo(l) : Finished(r))
         => (getStats[l].activeCount = 0 /\ getStats[l].pendingCount = 0)

\* C11 witness: three calls went through the gate of cap 1, one was rejected
\* and two resolved, and the gate is idle again
C11_Witness ==
  /\ RoutedTo("api.myanimelist.net") = Reqs
  /\ \A r \in Reqs : Finished(r)
  /\ \E r \in Reqs : pc[r] = "rejected"
  /\ \E r \in Reqs : pc[r] = "resolved"
  /\ getStats["api.myanimelist.net"].activeCount = 0
  /\ getStats["api.myanimelist.net"].pendingCount = 0

ExpectedKey(u) ==
  IF u.valid /\ u.hostname \in DOMAIN rateLimitConfig THEN u.hostname ELSE "default"

\* C13: policy resolution never fails. A call whose URL's hostname is a
\* configured domain runs under that domain's policy and gate, whatever the
\* scheme, port and path; every other call (unconfigured hostname, unparsable
\* URL) runs under the default policy: its gate and cap, its retry count, its
\* delays and timeout; a call is rejected only with the error of an attempt.
C13_PolicyResolution ==
  \A r \in Reqs :
    Called(r) =>
      LET key == ExpectedKey(url[r])
          policy == rateLimitConfig[key]
      IN  /\ PolicyOf(r) = policy
          /\ r \in RoutedTo(key)
          /\ pc[r] = "pending" => \E k \in 1..Len(queue[key]) : queue[key][k] = r
          /\ pc[r] \in {"rateWait", "inflight", "backoff"}
               => (activeCount[key] >= 1 /\ activeCount[key] <= policy.concurrency)
          /\ pc[r] = "backoff" => DelayOf(r) <= policy.maxDelay
          /\ key = "default" => retryCount[r] <= policy.maxRetries
          /\ pc[r] = "rejected" => settled[r] \in Errs

\* C13 witness: a call to http://localhost:3000/api/x sleeps in its first
\* backoff under the localhost policy (baseDelay 500, jitter below 250)
C13_Witness ==
  \E r \in Reqs :
    /\ pc[r] = "backoff"
    /\ url[r].hostname = "localhost" /\ url[r].port = 3000 /\ url[r].scheme = "http"
    /\ outcome[r].retryAfter = NoHeader
    /\ retryCount[r] = 0
    /\ DelayOf(r) >= 500 /\ DelayOf(r) <= 750

\* C14: under a policy of concurrency 1, concurrent calls to the domain are
\* dispatched one after the other in call order: when a call dispatches, every
\* earlier call to the domain has completed, every later one still waits for
\* the slot, and at least minRequestInterval has elapsed since the previous
\* dispatch to the domain (the last dispatch of the call before it).
C14_SerializedAtCapOne ==
  [][\A r \in Reqs :
       (attempts'[r] > attempts[r] /\ CapOf(getDomain(url'[r])) = 1)
         => LET domain == getDomain(url'[r])
            IN  /\ \A q \in Reqs \ {r} :
                     (pc'[q] # "idle" /\ getDomain(url'[q]) = domain)
                       => IF q < r THEN pc'[q] \in {"resolved", "rejected"}
                                   ELSE pc'[q] = "pending"
                /\ domain \in DOMAIN lastDispatch
                     => now' - lastDispatch[domain] >= minRequestInterval]_vars

\* C14 witness: concurrent calls to the domain of cap 1, one attempt each; all
\* but the last have completed and the last is in flight, each dispatched
\* 100 ms after the one before it
C14_Witness ==
  /\ \A r \in Reqs : Called(r) /\ DomainOf(r) = "api.myanimelist.net" /\ attempts[r] = 1
  /\ CapOf("api.myanimelist.net") = 1
  /\ \A r \in Reqs : r < NumReqs => Finished(r)
  /\ pc[NumReqs] = "inflight"
  /\ lastDispatch["api.myanimelist.net"] = StartTime + (NumReqs - 1) * minRequestInterval

\* processAnime tasks whose axios.post to graphql.anilist.co is in flight
ScriptInFlight == {id \in Ids : task[id] = "getAnilistInfo"}

\* C15 (as claimed): the metadata fetches of the population script go through
\* the governor, so the HTTP calls in flight to graphql.anilist.co, those of
\* the script included, never exceed that domain's cap of 2.
C15_AllThroughGovernor ==
  Cardinality(InFlight("graphql.anilist.co")) + Cardinality(ScriptInFlight)
    <= CapOf("graphql.anilist.co")

\* C16 (as claimed): getStats() has an entry for every hostname that received
\* a request, with the number of that hostname's calls holding a slot, the
\* number of its calls waiting for one, and the policy in force for it.
C16_StatsPerDomain ==
  \A h \in Domains :
    (\E r \in Reqs : Called(r) /\ DomainOf(r) = h)
      => /\ h \in DOMAIN getStats
         /\ getStats[h].activeCount = Cardinality(Holding(h))
         /\ getStats[h].pendingCount =
              Cardinality({r \in Reqs : pc[r] = "pending" /\ DomainOf(r) = h})
         /\ getStats[h].config = getConfig(h)

\* C17 (as claimed): once SIGINT has been handled (the connection is being
\* closed, the process exits) every processAnime of the current batch has settled.
C17_SigintCompletesBatch ==
  sigint # "none" => BatchSettled

\* C18: with SKIP_EXISTING, the task of an id that has a mapping document
\* never fetches metadata, looks up providers or writes: it goes from the
\* findOne query to its return (or to the catch of processBatch when the
\* query itself rejects), the document stays as it is, and the return leaves
\* processed and failed unchanged.
C18_SkipExisting ==
  [][\A id \in Ids :
       (SKIP_EXISTING /\ id \in DOMAIN db
          /\ task[id] \in {"none", "findOne", "skipped", "caught"})
         => /\ task'[id] \in {"none", "findOne", "skipped", "caught"}
            /\ id \in DOMAIN db' /\ db'[id] = db[id]
            /\ (task[id] = "findOne" /\ task'[id] = "skipped")
                 => (processed' = processed /\ failed' = failed)]_vars

\* C18 witness: in a batch an id with a stored document was skipped and an id
\* without one was processed; only the latter was counted
C18_Witness ==
  /\ SKIP_EXISTING
  /\ \E a, b \in BatchIds :
       /\ task[a] = "skipped" /\ db[a] = StoredDoc(a)
       /\ task[b] = "processed" /\ db[b].title = Info.title
  /\ processed = 1
  /\ failed = 0

\* C19 (as claimed): every id whose processing failed (no metadata, or
\* processAnime threw) has a document carrying an error field.
C19_FailedIdsStored ==
  \A id \in Ids :
    task[id] \in {"noInfo", "caught"}
      => (id \in DOMAIN db /\ "error" \in DOMAIN db[id])

\* processAnime tasks started and not settled
RunningTasks == {id \in Ids : task[id] \notin SettledTasks \cup {"none"}}

\* number of the batch an id belongs to
BatchOf(id) == ((CHOOSE k \in 1..Len(ids) : ids[k] = id) - 1) \div CONCURRENCY

\* C20: ids are processed in consecutive batches of at most CONCURRENCY ids:
\* at most CONCURRENCY tasks run at any instant, the running iteration's batch
\* is the next CONCURRENCY ids in order, and no task of a later batch has
\* started unless every task of every earlier batch has settled.
C20_ConsecutiveBatches ==
  /\ Cardinality(RunningTasks) <= CONCURRENCY
  /\ Len(batch) <= CONCURRENCY
  /\ mainPc = "awaitBatch"
       => (batch # <<>> /\ \A k \in 1..Len(batch) : batch[k] = ids[i + k])
  /\ \A a, b \in Ids :
       (BatchOf(a) < BatchOf(b) /\ task[b] # "none") => task[a] \in SettledTasks

\* C20 witness: the first batch settled with one id processed and one caught
\* after an error, and a task of the second batch is running
C20_Witness ==
  /\ \E a, b \in Ids :
       /\ BatchOf(a) = 0 /\ task[a] = "processed"
       /\ BatchOf(b) = 0 /\ task[b] = "caught"
  /\ \E c \in RunningTasks : BatchOf(c) = 1
  /\ Cardinality(RunningTasks) = NumIds - CONCURRENCY

\* C21 (as claimed): a call that must retry gives its slot back before the
\* backoff sleep and takes one again for the next attempt: the calls sleeping
\* in a backoff hold no slot, so the active count of a limiter never exceeds
\* the number of its calls that are not sleeping in a backoff.
C21_NoSlotDuringBackoff ==
  \A l \in DOMAIN rateLimitConfig :
    activeCount[l] <= Cardinality({r \in RoutedTo(l) : pc[r] \in {"rateWait", "inflight"}})

\* C22 (as claimed): the wait for minRequestInterval comes before the slot is
\* taken and consumes none: the calls sleeping in enforceRateLimit hold no
\* slot, so the active count of a limiter never exceeds the number of its
\* calls that have passed that wait and set the watermark.
C22_RateWaitBeforeSlot ==
  \A l \in DOMAIN rateLimitConfig :
    activeCount[l] <= Cardinality({r \in RoutedTo(l) : pc[r] \in {"inflight", "backoff"}})

\* the ordered decision table: the decision of the first row that applies
DecisionTable(rc, maxRetries, e) ==
  LET rows == << <<rc >= maxRetries, FALSE>>,
                 <<~e.response, TRUE>>,
                 <<e.status \in {429, 502, 503, 504}, TRUE>>,
                 <<e.code \in TimeoutCodes, TRUE>>,
                 <<e.status >= 400 /\ e.status <= 499, FALSE>>,
                 <<e.status >= 500, TRUE>>,
                 <<TRUE, FALSE>> >>
      first == CHOOSE k \in 1..Len(rows) :
                 rows[k][1] /\ \A n \in 1..(k - 1) : ~rows[n][1]
  IN  rows[first][2]

\* C23: for every retryCount, maxRetries, response present or absent, status
\* and error code, shouldRetry returns the decision of the first applicable
\* row of the table: exhausted -> fail; no response -> retry; 429, 502, 503,
\* 504 -> retry; timeout code -> retry; other 4xx -> fail; other status >= 500
\* -> retry; anything else -> fail.
C23_DecisionTable ==
  ret.fn = "shouldRetry"
    => ret.retry = DecisionTable(args.retryCount, args.maxRetries, args.error)

\* C23 witness: a 404 carrying a timeout code is retried (the timeout row comes
\* before the client-error row) while retries remain
C23_Witness ==
  /\ ret.fn = "shouldRetry"
  /\ args.error.response /\ args.error.status = 404 /\ args.error.code = "ETIMEDOUT"
  /\ args.retryCount < args.maxRetries
  /\ ret.retry = TRUE

\* C24 (as claimed): the attempt carries the caller's timeout whenever the
\* caller's request spec specifies one, whatever its value, else the timeout
\* of the resolved policy; the timeout is set in a copy that is otherwise the
\* caller's request spec, and the caller's object is left unchanged.
C24_TimeoutInjected ==
  [][ret'.fn = "requestConfig"
       => /\ ret'.requestConfig.timeout =
               IF ~args.config.timeout.undefined THEN args.config.timeout
               ELSE Defined(args.policy.timeout)
          /\ \A f \in {"url", "method"} : ret'.requestConfig[f] = args.config[f]
          /\ args'.config = args.config]_vars

\* C25: once the metadata fetch has succeeded, whatever the five provider
\* lookups come to, findOneAndUpdate is issued with failed, processed and the
\* collection untouched; when it resolves, the document of the id holds null
\* in the field of every provider whose lookup failed and the id found in the
\* others, processed is incremented by one and failed is unchanged; the
\* document is not written again.
C25_LookupFailuresTolerated ==
  [][\A id \in Ids :
       /\ (task[id] = "mapping" /\ task'[id] # "mapping")
            => /\ task'[id] = "findOneAndUpdate"
               /\ failed' = failed /\ processed' = processed /\ db' = db
       /\ (task[id] = "findOneAndUpdate" /\ task'[id] = "processed")
            => /\ processed' = processed + 1
               /\ failed' = failed
               /\ id \in DOMAIN db'
               /\ \A p \in Providers :
                    db'[id][p] = IF lookups[id][p] = "found" THEN "id" ELSE Null
               /\ \A other \in DOMAIN db \ {id} : db'[other] = db[other]
       /\ task[id] = "processed"
            => (task'[id] = "processed" /\ db'[id] = db[id])]_vars

\* C25 witness: the lookups of HiAnime and AnimePahe failed and the other
\* three found their id; the document was written with null in those two
\* fields and the id was counted as processed, not as failed
C25_Witness ==
  \E id \in Ids :
    /\ task[id] = "processed"
    /\ db[id].hianime = Null /\ db[id].animepahe = Null
    /\ db[id].animesama = "id" /\ db[id].animekai = "id" /\ db[id].anicrush = "id"
    /\ processed = 1
    /\ failed = 0

====
